---- MODULE Spec2Model ----
(***************************************************************************)
(* Model of the DOCX translator: the link detector, the backend variants,  *)
(* the retrying translator, the document walker, the translate-and-        *)
(* download flow of app.py, and the usage tracker of user_tracker.py.      *)
(*                                                                         *)
(* A text is a sequence of one-character strings.  The remote services and *)
(* the UI widgets are external: what a service answers on one attempt is   *)
(* an input of the attempt, and a statement of the walker's try block may  *)
(* raise.                                                                  *)
(***************************************************************************)
EXTENDS Integers, Sequences, FiniteSets, TLC

\* ------------------------------------------------------------------ bounds
MaxRetriesArg == 3      \* max_retries is drawn from 0..MaxRetriesArg
MaxIncrements == 6      \* increment_count calls in one behaviour
MaxDate == 2            \* calendar days 1..MaxDate
MaxIdCalls == 3         \* get_user_id calls in one behaviour

\* --------------------------------------------------------- program constants
TruncateLen == 3000     \* len(text) > 3000
PreviewLen == 50        \* text[:50]
MinLen == 2             \* len(text.strip()) < 2
DefaultMaxRetries == 3  \* max_retries=3
DailyLimit == 5         \* daily_limit=5

\* ------------------------------------------------------------- characters
UpperCase == <<"A","B","C","D","E","F","G","H","I","J","K","L","M",
               "N","O","P","Q","R","S","T","U","V","W","X","Y","Z">>
LowerCase == <<"a","b","c","d","e","f","g","h","i","j","k","l","m",
               "n","o","p","q","r","s","t","u","v","w","x","y","z">>
Digits == {"0","1","2","3","4","5","6","7","8","9"}
Letters == {UpperCase[i] : i \in 1..26} \cup {LowerCase[i] : i \in 1..26}

IsSpace(c) == c \in {" ", "\t", "\n"}

ToLower == [c \in {UpperCase[i] : i \in 1..26} |->
               LowerCase[CHOOSE i \in 1..26 : UpperCase[i] = c]]
ToUpper == [c \in {LowerCase[i] : i \in 1..26} |->
               UpperCase[CHOOSE i \in 1..26 : LowerCase[i] = c]]

Lower(c) == IF c \in DOMAIN ToLower THEN ToLower[c] ELSE c

Upper(c) == IF c \in DOMAIN ToUpper THEN ToUpper[c] ELSE c

\* str.strip(): drop leading and trailing whitespace
strip(s) ==
    IF \A i \in 1..Len(s) : IsSpace(s[i]) THEN <<>>
    ELSE LET first == CHOOSE i \in 1..Len(s) :
                         /\ ~IsSpace(s[i])
                         /\ \A j \in 1..(i-1) : IsSpace(s[j])
             back == CHOOSE k \in 0..(Len(s)-1) :
                         /\ ~IsSpace(s[Len(s)-k])
                         /\ \A j \in 0..(k-1) : IsSpace(s[Len(s)-j])
         IN SubSeq(s, first, Len(s) - back)

\* s[:n]
Prefix(s, n) == IF Len(s) > n THEN SubSeq(s, 1, n) ELSE s

\* p occurs in s at position i
HasAt(s, i, p) == /\ i + Len(p) - 1 <= Len(s)
                  /\ \A k \in 1..Len(p) : s[i + k - 1] = p[k]

\* the lower-case literal p occurs in s.lower() at position i
HasAtLower(s, i, p) == /\ i + Len(p) - 1 <= Len(s)
                       /\ \A k \in 1..Len(p) : Lower(s[i + k - 1]) = p[k]

\* p in s.lower()
ContainsLower(s, p) == \E i \in 1..Len(s) : HasAtLower(s, i, p)

\* str.startswith
startswith(s, p) == HasAt(s, 1, p)

\* re.search(p + r"[^\s]+", s, re.IGNORECASE) for a literal p
SearchThenNonSpace(s, p) ==
    \E i \in 1..Len(s) :
        /\ HasAtLower(s, i, p)
        /\ i + Len(p) <= Len(s)
        /\ ~IsSpace(s[i + Len(p)])

\* re.search(r"[a-zA-Z0-9.-]+\.[a-zA-Z]{2,}", s, re.IGNORECASE)
SearchDomain(s) ==
    \E j \in 2..(Len(s) - 2) :
        /\ s[j] = "."
        /\ s[j-1] \in Letters \cup Digits \cup {".", "-"}
        /\ s[j+1] \in Letters
        /\ s[j+2] \in Letters

\* ------------------------------------------------------------ link detector
HttpMark == <<"h","t","t","p",":","/","/">>
HttpsMark == <<"h","t","t","p","s",":","/","/">>
WwwMark == <<"w","w","w",".">>
FtpMark == <<"f","t","p",":","/","/">>
MailtoMark == <<"m","a","i","l","t","o",":">>
FileMark == <<"f","i","l","e",":","/","/">>

link_indicators == {HttpMark, HttpsMark, WwwMark, MailtoMark, FtpMark, FileMark}

url_patterns(text) ==
    \/ SearchThenNonSpace(text, HttpMark)
    \/ SearchThenNonSpace(text, HttpsMark)
    \/ SearchThenNonSpace(text, WwwMark)
    \/ SearchDomain(text)
    \/ SearchThenNonSpace(text, FtpMark)
    \/ SearchThenNonSpace(text, MailtoMark)
    \/ SearchThenNonSpace(text, FileMark)

\* is_url_or_link without the loop over link_indicators
is_url_or_link_patterns_only(text) == url_patterns(text)

is_url_or_link(text) ==
    \/ url_patterns(text)
    \/ \E indicator \in link_indicators : ContainsLower(text, indicator)

\* ------------------------------------------------------------------- inputs
Empty == <<>>
Hello == <<"H","e","l","l","o">>
Hallo == <<"H","a","l","l","o">>
PaddedJa == <<" ","J","a"," ">>
Hi == <<"H","i">>
Abbrev == <<"e",".","g",".">>
Domain == <<"a",".","d","e">>
NearMiss == <<"h","t","t","p",":","/","x">>
FtpLink == <<"f","t","p",":","/","/","x">>
Blank == <<" ">>
OneChar == <<"a">>
PaddedChar == <<" ","a"," ">>
\* "Visit https://example.com today"
Sample == <<"V","i","s","i","t"," ","h","t","t","p","s",":","/","/","e","x",
            "a","m","p","l","e",".","c","o","m"," ","t","o","d","a","y">>
\* prose of n characters: words of five letters
Prose(n) == [i \in 1..n |-> IF i % 6 = 0 THEN " " ELSE "a"]
LongText == Prose(TruncateLen + 1)
EdgeText == Prose(TruncateLen)

upper(s) == [i \in 1..Len(s) |-> Upper(s[i])]
Capitalised(s) == [i \in 1..Len(s) |-> IF i = 1 THEN Upper(s[i]) ELSE s[i]]

\* the four markers of the link rule, in three letter cases
Markers == {HttpMark, HttpsMark, WwwMark, MailtoMark}
CasedMarkers == UNION {{m, upper(m), Capitalised(m)} : m \in Markers}
Before == {Empty, <<"H","i"," ">>, <<"x">>}
After == {Empty, <<"a">>, <<" ","b">>, <<"a",".","d","e"," ","b">>}
MarkedTexts == {b \o m \o a : b \in Before, m \in CasedMarkers, a \in After}
PlainTexts == {Hello, Hi, Abbrev, NearMiss, LongText, EdgeText}
ShortTexts == {Empty, Blank, OneChar, PaddedChar}
Texts == MarkedTexts \cup PlainTexts \cup ShortTexts
             \cup {Domain, FtpLink, Sample}

Methods == {"Google Translate", "OpenAI"}

KeyPrefix == <<"s","k","-">>
NoKey == <<>>          \* openai_api_key None or "": both are falsy
GoodKey == <<"s","k","-","a">>
PaddedKey == <<" ","s","k","-","a"," ">>
BadKey == <<"b","a","d","-","k","e","y">>
BlankKey == <<" ">>
ShortKey == <<"s","k">>
Keys == {NoKey, GoodKey, PaddedKey, BadKey, BlankKey, ShortKey}

\* what the remote service does on one attempt
Responses == {Empty, Hallo, PaddedJa}
NetworkError == 0
Statuses == {200, 401, 429, 500, NetworkError}
Answered == {[kind |-> "ok", content |-> r, status |-> 200] : r \in Responses}
Refused == {[kind |-> k, content |-> Empty, status |-> 200] :
               k \in {"auth", "rate", "api", "error"}}
Incompatible == {[kind |-> "proxies", content |-> r, status |-> 200] :
                    r \in Responses}
                \cup {[kind |-> "proxies", content |-> Empty, status |-> st] :
                         st \in Statuses \ {200}}
OpenAIOutcomes == Answered \cup Refused \cup Incompatible
GoogleOutcomes == Answered \cup {[kind |-> "error", content |-> Empty, status |-> 200]}

\* ----------------------------------------------------------------- backends
Return(v, fromBackend, net) ==
    [raised |-> FALSE, value |-> v, error |-> "", from_backend |-> fromBackend,
     network_calls |-> net]
Raise(e, net) ==
    [raised |-> TRUE, value |-> Empty, error |-> e, from_backend |-> FALSE,
     network_calls |-> net]

\* if len(text) > 3000: text = text[:3000] + "..."
Truncate(text) ==
    IF Len(text) > TruncateLen
    THEN SubSeq(text, 1, TruncateLen) \o <<".", ".", ".">>
    ELSE text

translate_with_openai_direct(text, api_key, o) ==
    LET key == strip(api_key)
        sent == Truncate(text)
        translated_text == strip(o.content)
    IN IF ~startswith(key, KeyPrefix) THEN Raise("format", 0)
       ELSE IF o.status = 200
            THEN IF translated_text # Empty
                 THEN Return(translated_text, TRUE, 1)
                 ELSE Return(sent, FALSE, 1)
       ELSE IF o.status = 401 THEN Raise("auth", 1)
       ELSE IF o.status = 429 THEN Raise("rate", 1)
       ELSE IF o.status = NetworkError THEN Raise("network", 1)
       ELSE Raise("api", 1)

\* translate_with_openai, checking the key format only after the request
translate_with_openai_late_check(text, api_key, o) ==
    LET key == strip(api_key)
        sent == Truncate(text)
        result == strip(o.content)
    IN IF ~startswith(key, KeyPrefix) THEN Raise("format", 1)
       ELSE IF o.kind = "ok"
            THEN IF result # Empty
                 THEN Return(result, TRUE, 1)
                 ELSE Return(sent, FALSE, 1)
       ELSE IF o.kind = "proxies"
            THEN translate_with_openai_direct(text, key, o)
       ELSE Raise(o.kind, 1)

translate_with_openai(text, api_key, o) ==
    LET key == strip(api_key)
        sent == Truncate(text)
        result == strip(o.content)
    IN IF ~startswith(key, KeyPrefix) THEN Raise("format", 0)
       ELSE IF o.kind = "ok"
            THEN IF result # Empty
                 THEN Return(result, TRUE, 1)
                 ELSE Return(sent, FALSE, 1)
       ELSE IF o.kind = "proxies"
            THEN translate_with_openai_direct(text, key, o)
       ELSE Raise(o.kind, 1)

translate_with_google(text, o) ==
    IF o.kind = "ok" THEN Return(o.content, TRUE, 1) ELSE Raise(o.kind, 1)

\* -------------------------------------------------------------------- state
VARIABLES
    call,               \* the activation of translate_text_safely
    phase,              \* position of the translate-and-download flow
    uploaded_file, src_lang, dest_lang, translation_method, openai_api_key,
    doc,                \* the Document being rewritten
    orig,               \* the Document as it was loaded
    total_items, current_item,
    para_i, table_i, row_i, cell_i,     \* the loop variables of the walker
    visited,            \* locations whose loop body was entered, in order
    invocations,        \* calls of translate_text_safely made by the walker
    translated,         \* locations that received a backend's output
    outputs,            \* <<location, text sent, backend's output>> of the walk
    failures,           \* location -> statement of the try block that raised
    error_log,          \* st.error calls
    progress_log,       \* progress_bar.progress values, as <<processed, total>>
    user_id, today, daily_usage, translations,   \* the tracker's tables
    increments,         \* increment_count calls so far
    completed,          \* <<user, date>> -> increment_count calls that returned
    sess,               \* session -> its position in check / increment_count
    lock,               \* the connection holding the database's write lock
    session_state,      \* st.session_state: <<>> or <<the user_id it holds>>
    query_params,       \* the values of user_id in the page's query string
    returned,           \* what the last get_user_id returned
    id_calls,           \* get_user_id calls so far
    generated,          \* uuid.uuid4() calls so far
    allowed             \* can_translate of the user when translate_docx started

input_vars == <<uploaded_file, src_lang, dest_lang, translation_method,
                openai_api_key>>
walker_vars == <<doc, orig, total_items, current_item, para_i, table_i, row_i,
                 cell_i, visited, invocations, translated, outputs, failures,
                 error_log, progress_log>>
session_vars == <<sess, lock>>
identity_vars == <<session_state, query_params, returned, id_calls, generated>>
tracker_vars == <<user_id, today, daily_usage, translations, increments, completed,
                  session_vars, identity_vars>>
vars == <<call, phase, input_vars, walker_vars, tracker_vars, allowed>>

\* ------------------------------------------------------- resilient translator
NoCall ==
    [pc |-> "idle", caller |-> "none", text |-> Empty, method |-> "Google Translate",
     key |-> NoKey, max_retries |-> 0, attempt |-> 0, result |-> Empty,
     skipped |-> "", attempts |-> 0, sleeps |-> 0, warnings |-> <<>>,
     google_calls |-> 0, openai_calls |-> 0, network_calls |-> 0,
     errors |-> <<>>, last |-> [kind |-> "none", content |-> Empty, status |-> 0],
     from_backend |-> FALSE]

\* Enter, measuring the text without stripping it
Enter_unstripped(text, method, key, max_retries, caller) ==
    LET c == [NoCall EXCEPT !.caller = caller, !.text = text, !.method = method,
                            !.key = key, !.max_retries = max_retries]
    IN IF is_url_or_link(text)
       THEN [c EXCEPT !.pc = "returned", !.result = text, !.skipped = "link"]
       ELSE IF Len(text) < MinLen
       THEN [c EXCEPT !.pc = "returned", !.result = text, !.skipped = "short"]
       ELSE IF max_retries <= 0
       THEN [c EXCEPT !.pc = "returned", !.result = text]
       ELSE [c EXCEPT !.pc = "loop"]

\* translate_text_safely up to the first iteration of the retry loop
Enter(text, method, key, max_retries, caller) ==
    LET c == [NoCall EXCEPT !.caller = caller, !.text = text, !.method = method,
                            !.key = key, !.max_retries = max_retries]
    IN IF is_url_or_link(text)
       THEN [c EXCEPT !.pc = "returned", !.result = text, !.skipped = "link"]
       ELSE IF Len(strip(text)) < MinLen
       THEN [c EXCEPT !.pc = "returned", !.result = text, !.skipped = "short"]
       ELSE IF max_retries <= 0
       THEN [c EXCEPT !.pc = "returned", !.result = text]
       ELSE [c EXCEPT !.pc = "loop"]

\* does this activation go to the OpenAI variant
UsesOpenAI(c) == c.method = "OpenAI" /\ c.key # NoKey

\* the backend call of one iteration: `if translation_method == "OpenAI" and
\* openai_api_key`
Backend(c, o) ==
    IF UsesOpenAI(c) THEN translate_with_openai(c.text, c.key, o)
    ELSE translate_with_google(c.text, o)

\* the activation after the backend call of one iteration was made
Attempted(c, o) ==
    [c EXCEPT !.attempts = @ + 1,
              !.openai_calls = IF UsesOpenAI(c) THEN @ + 1 ELSE @,
              !.google_calls = IF UsesOpenAI(c) THEN @ ELSE @ + 1,
              !.network_calls = @ + Backend(c, o).network_calls,
              !.last = o]

\* Iteration, letting the last exception escape instead of warning
Iteration_reraise(c, o) ==
    LET r == Backend(c, o)
        d == Attempted(c, o)
    IN IF ~r.raised
       THEN [d EXCEPT !.pc = "returned", !.result = r.value,
                      !.from_backend = r.from_backend]
       ELSE IF c.attempt < c.max_retries - 1
       THEN [d EXCEPT !.errors = Append(@, r.error), !.sleeps = @ + 1,
                      !.attempt = @ + 1]
       ELSE [d EXCEPT !.errors = Append(@, r.error), !.pc = "raised"]

\* Iteration, sleeping after every failed attempt, the last one included
Iteration_sleep_always(c, o) ==
    LET r == Backend(c, o)
        d == Attempted(c, o)
    IN IF ~r.raised
       THEN [d EXCEPT !.pc = "returned", !.result = r.value,
                      !.from_backend = r.from_backend]
       ELSE IF c.attempt < c.max_retries - 1
       THEN [d EXCEPT !.errors = Append(@, r.error), !.sleeps = @ + 1,
                      !.attempt = @ + 1]
       ELSE [d EXCEPT !.errors = Append(@, r.error), !.sleeps = @ + 1,
                      !.warnings = Append(@, Prefix(c.text, PreviewLen)),
                      !.pc = "returned", !.result = c.text]

\* Iteration, warning after every failed attempt
Iteration_warn_each(c, o) ==
    LET r == Backend(c, o)
        d == Attempted(c, o)
    IN IF ~r.raised
       THEN [d EXCEPT !.pc = "returned", !.result = r.value,
                      !.from_backend = r.from_backend]
       ELSE IF c.attempt < c.max_retries - 1
       THEN [d EXCEPT !.errors = Append(@, r.error), !.sleeps = @ + 1,
                      !.warnings = Append(@, Prefix(c.text, PreviewLen)),
                      !.attempt = @ + 1]
       ELSE [d EXCEPT !.errors = Append(@, r.error),
                      !.warnings = Append(@, Prefix(c.text, PreviewLen)),
                      !.pc = "returned", !.result = c.text]

\* one iteration of `for attempt in range(max_retries)` with the service
\* answering o
Iteration(c, o) ==
    LET r == Backend(c, o)
        d == Attempted(c, o)
    IN IF ~r.raised
       THEN [d EXCEPT !.pc = "returned", !.result = r.value,
                      !.from_backend = r.from_backend]
       ELSE IF c.attempt < c.max_retries - 1
       THEN [d EXCEPT !.errors = Append(@, r.error), !.sleeps = @ + 1,
                      !.attempt = @ + 1]
       ELSE [d EXCEPT !.errors = Append(@, r.error),
                      !.warnings = Append(@, Prefix(c.text, PreviewLen)),
                      !.pc = "returned", !.result = c.text]

\* a direct call of translate_text_safely
Call(text, method, key, max_retries) ==
    /\ phase = "idle"
    /\ call.pc = "idle"
    /\ call' = Enter(text, method, key, max_retries, "direct")
    /\ UNCHANGED <<phase, input_vars, walker_vars, tracker_vars, allowed>>

Attempt(o) ==
    /\ call.pc = "loop"
    /\ call' = Iteration(call, o)
    /\ UNCHANGED <<phase, input_vars, walker_vars, tracker_vars, allowed>>

AttemptAny ==
    \E o \in (IF UsesOpenAI(call) THEN OpenAIOutcomes ELSE GoogleOutcomes) :
        Attempt(o)

CallAny ==
    \E text \in Texts, method \in Methods, key \in Keys,
       max_retries \in 0..MaxRetriesArg :
        Call(text, method, key, max_retries)

\* ----------------------------------------------------------------- documents
NoDoc == [paragraphs |-> <<>>, tables |-> <<>>]
NoFile == [present |-> FALSE, readable |-> FALSE, content |-> NoDoc]
File(d) == [present |-> TRUE, readable |-> TRUE, content |-> d]
BadFile == [present |-> TRUE, readable |-> FALSE, content |-> NoDoc]

\* NonBlank, without stripping the text
NonBlank_unstripped(text) == text # Empty

\* `if p.text.strip()`
NonBlank(text) == strip(text) # Empty

ParaLoc(i) == <<0, i, 0, 0>>
CellLoc(t, r, c) == <<1, t, r, c>>

ParaLocs(d) == {ParaLoc(i) : i \in 1..Len(d.paragraphs)}
CellLocs(d) ==
    UNION {UNION {{CellLoc(t, r, c) : c \in 1..Len(d.tables[t][r])} :
                     r \in 1..Len(d.tables[t])} :
              t \in 1..Len(d.tables)}
Locs(d) == ParaLocs(d) \cup CellLocs(d)
TextAt(d, loc) == IF loc[1] = 0 THEN d.paragraphs[loc[2]]
                  ELSE d.tables[loc[2]][loc[3]][loc[4]]

total_paragraphs(d) == Cardinality({l \in ParaLocs(d) : NonBlank(TextAt(d, l))})
total_cells(d) == Cardinality({l \in CellLocs(d) : NonBlank(TextAt(d, l))})

\* ------------------------------------------------------------ usage tracker
Users == {"u1", "u2"}
Dates == 1..MaxDate

\* the translation_count of the daily_usage row keyed (u, d), 0 without a row
Count(u, d) ==
    IF <<u, d>> \in DOMAIN daily_usage THEN daily_usage[<<u, d>>] ELSE 0

\* get_daily_count, adding up the user's rows of every date
get_daily_count_any_date(u) ==
    LET RECURSIVE Sum(_)
        Sum(d) == IF d = 0 THEN 0 ELSE Count(u, d) + Sum(d - 1)
    IN Sum(MaxDate)

get_daily_count(u) ==
    IF <<u, today>> \in DOMAIN daily_usage THEN daily_usage[<<u, today>>] ELSE 0

\* can_translate, admitting a user who is at the limit
can_translate_at_limit(u, daily_limit) == get_daily_count(u) <= daily_limit

can_translate(u, daily_limit) == get_daily_count(u) < daily_limit

\* the daily_usage table after the upsert of (u, d) with count n
Upsert(u, d, n) ==
    [k \in DOMAIN daily_usage \cup {<<u, d>>} |->
        IF k = <<u, d>> THEN n ELSE daily_usage[k]]

\* the translations table after the insert of a log row
Logged(u, d) ==
    Append(translations,
           [id |-> Len(translations) + 1, user_id |-> u, created_at |-> d])

\* INSERT OR REPLACE ... COALESCE((SELECT ...), 0) + 1, then the log row, then
\* commit
increment_count(u) ==
    /\ phase = "idle"
    /\ call.pc # "loop"
    /\ increments < MaxIncrements
    /\ daily_usage' = Upsert(u, today, get_daily_count(u) + 1)
    /\ translations' = Logged(u, today)
    /\ increments' = increments + 1
    /\ completed' = [completed EXCEPT ![<<u, today>>] = @ + 1]
    /\ UNCHANGED <<call, phase, input_vars, walker_vars, user_id, today,
                   session_vars, identity_vars, allowed>>

\* date.today() moves to the next calendar day
NextDay ==
    /\ phase = "idle"
    /\ call.pc # "loop"
    /\ today < MaxDate
    /\ today' = today + 1
    /\ UNCHANGED <<call, phase, input_vars, walker_vars, user_id, daily_usage,
                   translations, increments, completed, session_vars,
                   identity_vars, allowed>>

\* ------------------------------------------------------- concurrent sessions
\* each Streamlit session runs the script in its own thread; every tracker
\* call opens its own connection to the one database file
Sessions == {"s1", "s2"}
NoLock == "none"
Resting == [pc |-> "idle", user |-> "u1", date |-> 1, pending |-> 0]

tracker_frame == <<call, phase, input_vars, walker_vars, user_id, today,
                   identity_vars, allowed>>

\* a session asks can_translate(u) and goes on only if it returned True
check(s, u) ==
    /\ sess[s].pc = "idle"
    /\ increments < MaxIncrements
    /\ sess' = [sess EXCEPT ![s] =
                   [Resting EXCEPT !.user = u,
                                   !.pc = IF can_translate(u, DailyLimit)
                                          THEN "checked" ELSE "idle"]]
    /\ UNCHANGED <<tracker_frame, daily_usage, translations, increments,
                   completed, lock>>

\* increment_count up to sqlite3.connect: today is read here
ic_begin(s) ==
    /\ sess[s].pc = "checked"
    /\ increments < MaxIncrements
    /\ increments' = increments + 1
    /\ sess' = [sess EXCEPT ![s].pc = "begun", ![s].date = today]
    /\ UNCHANGED <<tracker_frame, daily_usage, translations, completed, lock>>

\* CanWrite, with no write lock on the database
CanWrite_unlocked(s) == TRUE

\* a statement that writes starts a write transaction: it waits while another
\* connection holds the write lock
CanWrite(s) == lock = NoLock

\* the INSERT OR REPLACE statement: takes the write lock, reads the row and
\* writes count + 1 inside the transaction
ic_upsert(s) ==
    /\ sess[s].pc = "begun"
    /\ CanWrite(s)
    /\ lock' = s
    /\ sess' = [sess EXCEPT ![s].pc = "upserted",
                            ![s].pending = Count(sess[s].user, sess[s].date) + 1]
    /\ UNCHANGED <<tracker_frame, daily_usage, translations, increments,
                   completed>>

\* the INSERT INTO translations statement, in the same transaction
ic_log(s) ==
    /\ sess[s].pc = "upserted"
    /\ sess' = [sess EXCEPT ![s].pc = "logged"]
    /\ UNCHANGED <<tracker_frame, daily_usage, translations, increments,
                   completed, lock>>

\* conn.commit(); conn.close(): both rows become visible, the lock is released
ic_commit(s) ==
    /\ sess[s].pc = "logged"
    /\ daily_usage' = Upsert(sess[s].user, sess[s].date, sess[s].pending)
    /\ translations' = Logged(sess[s].user, sess[s].date)
    /\ completed' = [completed EXCEPT ![<<sess[s].user, sess[s].date>>] = @ + 1]
    /\ lock' = NoLock
    /\ sess' = [sess EXCEPT ![s] = Resting]
    /\ UNCHANGED <<tracker_frame, increments>>

\* ic_abort, with the upsert already committed on its own
ic_abort_keep_count(s) ==
    /\ sess[s].pc \in {"upserted", "logged"}
    /\ daily_usage' = Upsert(sess[s].user, sess[s].date, sess[s].pending)
    /\ lock' = NoLock
    /\ sess' = [sess EXCEPT ![s] = Resting]
    /\ UNCHANGED <<tracker_frame, translations, increments, completed>>

\* the log insert or conn.commit() raises: increment_count has no handler, the
\* connection is dropped uncommitted and its transaction is rolled back
ic_abort(s) ==
    /\ sess[s].pc \in {"upserted", "logged"}
    /\ lock' = NoLock
    /\ sess' = [sess EXCEPT ![s] = Resting]
    /\ UNCHANGED <<tracker_frame, daily_usage, translations, increments,
                   completed>>

\* ------------------------------------------------------------- user identity
NoId == <<>>            \* the key user_id is absent
Uuids == {"g1", "g2"}   \* values of str(uuid.uuid4())
QueryInputs == {NoId, <<"u1">>, <<"u2", "u1">>, <<"">>}

identity_frame == <<call, phase, input_vars, walker_vars, user_id, today,
                    daily_usage, translations, increments, completed,
                    session_vars, allowed>>

\* get_user_id, never reading the query parameters
get_user_id_no_param ==
    /\ id_calls < MaxIdCalls
    /\ id_calls' = id_calls + 1
    /\ IF session_state # NoId
       THEN /\ returned' = session_state[1]
            /\ UNCHANGED <<session_state, query_params, generated>>
       ELSE \E g \in Uuids :
               /\ session_state' = <<g>>
               /\ query_params' = <<g>>
               /\ returned' = g
               /\ generated' = generated + 1
    /\ UNCHANGED identity_frame

get_user_id ==
    /\ id_calls < MaxIdCalls
    /\ id_calls' = id_calls + 1
    /\ IF session_state # NoId
       THEN /\ returned' = session_state[1]
            /\ UNCHANGED <<session_state, query_params, generated>>
       ELSE IF query_params # NoId
       THEN /\ session_state' = <<query_params[1]>>
            /\ returned' = query_params[1]
            /\ UNCHANGED <<query_params, generated>>
       ELSE \E g \in Uuids :
               /\ session_state' = <<g>>
               /\ query_params' = <<g>>
               /\ returned' = g
               /\ generated' = generated + 1
    /\ UNCHANGED identity_frame

\* the page is loaded again with the same URL: a new session, whose
\* st.session_state is empty
Reload ==
    /\ session_state # NoId
    /\ session_state' = NoId
    /\ UNCHANGED <<identity_frame, query_params, returned, id_calls, generated>>

\* the page is opened with another query string
Open(q) ==
    /\ q # query_params
    /\ session_state' = NoId
    /\ query_params' = q
    /\ UNCHANGED <<identity_frame, returned, id_calls, generated>>

\* ------------------------------------------------- translate-and-download flow
\* the Translate button: Document(file), the totals, the progress widgets
StartTranslate ==
    /\ phase = "idle"
    /\ call.pc # "loop"
    /\ uploaded_file.present /\ src_lang # "" /\ dest_lang # ""
    /\ ~(translation_method = "OpenAI" /\ openai_api_key = NoKey)
    /\ allowed' = can_translate(user_id, DailyLimit)
    /\ IF uploaded_file.readable
       THEN /\ doc' = uploaded_file.content
            /\ orig' = uploaded_file.content
            /\ total_items' = total_paragraphs(uploaded_file.content)
                                 + total_cells(uploaded_file.content)
            /\ current_item' = 0
            /\ para_i' = 1
            /\ progress_log' = <<>>
            /\ phase' = "paragraphs"
            /\ UNCHANGED error_log
       ELSE /\ phase' = "failed"
            /\ error_log' = Append(error_log, "fatal")
            /\ UNCHANGED <<doc, orig, total_items, current_item, para_i,
                           progress_log>>
    /\ UNCHANGED <<call, input_vars, table_i, row_i, cell_i, visited,
                   invocations, translated, outputs, failures, tracker_vars>>

\* Handled, without counting the failed fragment
Handled_uncounted(loc, stmt, kind, done) ==
    /\ failures' = failures \cup {<<loc, stmt>>}
    /\ error_log' = Append(error_log, kind)
    /\ current_item' = done
    /\ progress_log' = Append(progress_log, <<done, total_items>>)

\* the except clause of a fragment: st.error, current_item += 1, progress
Handled(loc, stmt, kind, done) ==
    /\ failures' = failures \cup {<<loc, stmt>>}
    /\ error_log' = Append(error_log, kind)
    /\ current_item' = done + 1
    /\ progress_log' = Append(progress_log, <<done + 1, total_items>>)

\* Visit, calling the translator before the status update
Visit_call_first(loc, text, kind, next) ==
    /\ visited' = Append(visited, loc)
    /\ invocations' = invocations + 1
    /\ \/ /\ Handled(loc, "status", kind, current_item)
          /\ UNCHANGED <<call, phase>>
       \/ /\ call' = Enter(text, translation_method, openai_api_key,
                           DefaultMaxRetries, "walker")
          /\ phase' = next
          /\ UNCHANGED <<failures, error_log, current_item, progress_log>>

\* the try block of a fragment up to the call of the translator
Visit(loc, text, kind, next) ==
    /\ visited' = Append(visited, loc)
    /\ \/ /\ Handled(loc, "status", kind, current_item)
          /\ UNCHANGED <<call, phase, invocations>>
       \/ /\ call' = Enter(text, translation_method, openai_api_key,
                           DefaultMaxRetries, "walker")
          /\ invocations' = invocations + 1
          /\ phase' = next
          /\ UNCHANGED <<failures, error_log, current_item, progress_log>>

\* Finish, dropping the translator's result instead of assigning it
Finish_discard(loc, written, kind) ==
    /\ call.pc = "returned"
    /\ outputs' = IF call.from_backend
                  THEN outputs \cup {<<loc, call.text, call.result>>}
                  ELSE outputs
    /\ \/ /\ doc' = doc
          /\ translated' = IF call.from_backend THEN translated \cup {loc}
                           ELSE translated
          /\ current_item' = current_item + 1
          /\ progress_log' = Append(progress_log, <<current_item + 1, total_items>>)
          /\ UNCHANGED <<failures, error_log>>
       \/ /\ Handled(loc, "assign", kind, current_item)
          /\ UNCHANGED <<doc, translated>>
       \/ /\ doc' = written
          /\ translated' = IF call.from_backend THEN translated \cup {loc}
                           ELSE translated
          /\ Handled(loc, "progress", kind, current_item + 1)

\* the try block of a fragment after the translator returned
Finish(loc, written, kind) ==
    /\ call.pc = "returned"
    /\ outputs' = IF call.from_backend
                  THEN outputs \cup {<<loc, call.text, call.result>>}
                  ELSE outputs
    /\ \/ /\ doc' = written
          /\ translated' = IF call.from_backend THEN translated \cup {loc}
                           ELSE translated
          /\ current_item' = current_item + 1
          /\ progress_log' = Append(progress_log, <<current_item + 1, total_items>>)
          /\ UNCHANGED <<failures, error_log>>
       \/ /\ Handled(loc, "assign", kind, current_item)
          /\ UNCHANGED <<doc, translated>>
       \/ /\ doc' = written
          /\ translated' = IF call.from_backend THEN translated \cup {loc}
                           ELSE translated
          /\ Handled(loc, "progress", kind, current_item + 1)

VisitParagraph ==
    /\ phase = "paragraphs"
    /\ para_i <= Len(doc.paragraphs)
    /\ IF NonBlank(doc.paragraphs[para_i])
       THEN /\ Visit(ParaLoc(para_i), doc.paragraphs[para_i], "paragraph",
                     "para_translating")
            /\ para_i' = IF phase' = "paragraphs" THEN para_i + 1 ELSE para_i
       ELSE /\ para_i' = para_i + 1
            /\ UNCHANGED <<call, phase, visited, invocations, failures,
                           error_log, current_item, progress_log>>
    /\ UNCHANGED <<input_vars, doc, orig, total_items, table_i, row_i, cell_i,
                   translated, outputs, tracker_vars, allowed>>

FinishParagraph ==
    /\ phase = "para_translating"
    /\ Finish(ParaLoc(para_i),
              [doc EXCEPT !.paragraphs[para_i] = call.result], "paragraph")
    /\ para_i' = para_i + 1
    /\ phase' = "paragraphs"
    /\ UNCHANGED <<call, input_vars, orig, total_items, table_i, row_i, cell_i,
                   visited, invocations, tracker_vars, allowed>>

\* the paragraph loop is exhausted: `for table in doc.tables`
EndParagraphs ==
    /\ phase = "paragraphs"
    /\ para_i > Len(doc.paragraphs)
    /\ phase' = "tables"
    /\ table_i' = 1 /\ row_i' = 1 /\ cell_i' = 1
    /\ UNCHANGED <<call, input_vars, doc, orig, total_items, current_item, para_i,
                   visited, invocations, translated, outputs, failures, error_log,
                   progress_log, tracker_vars, allowed>>

InTable == phase = "tables" /\ table_i <= Len(doc.tables)
InRow == InTable /\ row_i <= Len(doc.tables[table_i])
InCell == InRow /\ cell_i <= Len(doc.tables[table_i][row_i])

VisitCell ==
    /\ InCell
    /\ IF NonBlank(doc.tables[table_i][row_i][cell_i])
       THEN /\ Visit(CellLoc(table_i, row_i, cell_i),
                     doc.tables[table_i][row_i][cell_i], "table cell",
                     "cell_translating")
            /\ cell_i' = IF phase' = "tables" THEN cell_i + 1 ELSE cell_i
       ELSE /\ cell_i' = cell_i + 1
            /\ UNCHANGED <<call, phase, visited, invocations, failures,
                           error_log, current_item, progress_log>>
    /\ UNCHANGED <<input_vars, doc, orig, total_items, para_i, table_i, row_i,
                   translated, outputs, tracker_vars, allowed>>

FinishCell ==
    /\ phase = "cell_translating"
    /\ Finish(CellLoc(table_i, row_i, cell_i),
              [doc EXCEPT !.tables[table_i][row_i][cell_i] = call.result],
              "table cell")
    /\ cell_i' = cell_i + 1
    /\ phase' = "tables"
    /\ UNCHANGED <<call, input_vars, orig, total_items, para_i, table_i, row_i,
                   visited, invocations, tracker_vars, allowed>>

\* `for cell in row.cells` is exhausted
NextRow ==
    /\ InRow /\ ~InCell
    /\ row_i' = row_i + 1 /\ cell_i' = 1
    /\ UNCHANGED <<call, phase, input_vars, doc, orig, total_items, current_item,
                   para_i, table_i, visited, invocations, translated, outputs,
                   failures,
                   error_log, progress_log, tracker_vars, allowed>>

\* `for row in table.rows` is exhausted
NextTable ==
    /\ InTable /\ ~InRow
    /\ table_i' = table_i + 1 /\ row_i' = 1 /\ cell_i' = 1
    /\ UNCHANGED <<call, phase, input_vars, doc, orig, total_items, current_item,
                   para_i, visited, invocations, translated, outputs, failures,
                   error_log, progress_log, tracker_vars, allowed>>

\* translate_docx returns doc; the flow saves it and offers the download
ReturnDoc ==
    /\ phase = "tables" /\ ~InTable
    /\ phase' = "done"
    /\ UNCHANGED <<call, input_vars, walker_vars, tracker_vars, allowed>>

\* ------------------------------------------------------------ specifications
\* the scenario of the specification: one paragraph with a URL, one cell
SampleDoc == [paragraphs |-> <<Sample>>, tables |-> << << <<Hello>> >> >>]
ParagraphsDoc == [paragraphs |-> <<Hello, Blank, Hi>>, tables |-> <<>>]
LongDoc == [paragraphs |-> <<LongText>>, tables |-> <<>>]
TablesDoc == [paragraphs |-> <<Empty>>,
              tables |-> << << <<Domain, Hello>>, <<OneChar, Blank>> >>,
                            << <<Hi>> >> >>]
BlankDoc == [paragraphs |-> <<Empty, Blank>>, tables |-> << << <<Blank>> >> >>]
RaggedDoc == [paragraphs |-> <<>>,
              tables |-> << <<>>, << <<>>, <<Hi>> >> >>]
SmallDoc == [paragraphs |-> <<Domain>>, tables |-> << << <<Hi>> >> >>]
Docs == {SampleDoc, ParagraphsDoc, LongDoc, TablesDoc, BlankDoc, RaggedDoc}

InitWalker ==
    /\ doc = NoDoc /\ orig = NoDoc
    /\ total_items = 0 /\ current_item = 0
    /\ para_i = 1 /\ table_i = 1 /\ row_i = 1 /\ cell_i = 1
    /\ visited = <<>> /\ invocations = 0 /\ translated = {} /\ failures = {}
    /\ outputs = {}
    /\ error_log = <<>> /\ progress_log = <<>>

InitTracker ==
    /\ today = 1
    /\ daily_usage = <<>>
    /\ translations = <<>>
    /\ increments = 0
    /\ completed = [k \in Users \X Dates |-> 0]
    /\ sess = [s \in Sessions |-> Resting]
    /\ lock = NoLock
    /\ session_state = NoId /\ query_params = NoId
    /\ returned = "" /\ id_calls = 0 /\ generated = 0

\* direct calls of the translator
InitTranslator ==
    /\ call = NoCall /\ phase = "idle" /\ allowed = TRUE
    /\ uploaded_file = NoFile /\ src_lang = "" /\ dest_lang = ""
    /\ translation_method = "Google Translate" /\ openai_api_key = NoKey
    /\ user_id = "u1"
    /\ InitWalker /\ InitTracker

NextTranslator == CallAny \/ AttemptAny

TranslatorSpec == InitTranslator /\ [][NextTranslator]_vars

\* one run of the translate-and-download flow
Init ==
    /\ call = NoCall /\ phase = "idle" /\ allowed = TRUE
    /\ uploaded_file \in {NoFile, BadFile} \cup {File(d) : d \in Docs}
    /\ src_lang \in {"", "en"} /\ dest_lang \in {"", "de"}
    /\ translation_method \in Methods
    /\ openai_api_key \in IF translation_method = "OpenAI"
                          THEN {NoKey, GoodKey, BadKey} ELSE {NoKey}
    /\ user_id = "u1"
    /\ InitWalker /\ InitTracker

Walk ==
    \/ VisitParagraph \/ FinishParagraph \/ EndParagraphs
    \/ VisitCell \/ FinishCell \/ NextRow \/ NextTable \/ ReturnDoc

Next == StartTranslate \/ Walk \/ AttemptAny

Spec == Init /\ [][Next]_vars

\* sessions using the tracker, then one run of the flow
InitSession ==
    /\ call = NoCall /\ phase = "idle" /\ allowed = TRUE
    /\ uploaded_file = File(SmallDoc) /\ src_lang = "en" /\ dest_lang = "de"
    /\ translation_method = "Google Translate" /\ openai_api_key = NoKey
    /\ user_id \in Users
    /\ InitWalker /\ InitTracker

NextSession ==
    \/ \E u \in Users : increment_count(u)
    \/ NextDay
    \/ StartTranslate \/ Walk \/ AttemptAny

SessionSpec == InitSession /\ [][NextSession]_vars

\* sessions of one deployment that share the database
NextConcurrent ==
    \/ \E s \in Sessions, u \in Users : check(s, u)
    \/ \E s \in Sessions : ic_begin(s) \/ ic_upsert(s) \/ ic_log(s) \/ ic_commit(s)
    \/ \E s \in Sessions : ic_abort(s)
    \/ NextDay

ConcurrentSpec == InitSession /\ [][NextConcurrent]_vars

\* visits of one browser
NextIdentity ==
    \/ get_user_id
    \/ Reload
    \/ \E q \in QueryInputs : Open(q)

IdentitySpec == InitSession /\ [][NextIdentity]_vars

\* ------------------------------------------------- claims on the translator
\* the activation is over and every attempt it made raised
AllFailed == /\ call.pc = "returned"
             /\ call.attempts >= 1
             /\ Len(call.errors) = call.attempts

\* the activation is over and its last attempt returned
Succeeded == /\ call.pc = "returned"
             /\ Len(call.errors) < call.attempts

\* C1: translate_text_safely never raises on backend exceptions: no activation
\* ends by raising, no warning is emitted while attempts remain, and when every
\* attempt raised (max_retries >= 1) the call returns the original text
\* unchanged with exactly one warning.
C1_NeverRaises ==
    /\ call.pc \in {"idle", "loop", "returned"}
    /\ call.pc = "loop" => call.warnings = <<>>
    /\ AllFailed => /\ call.result = call.text
                    /\ Len(call.warnings) = 1
                    /\ call.warnings[1] = Prefix(call.text, PreviewLen)

C1_Witness ==
    /\ AllFailed
    /\ UsesOpenAI(call)
    /\ call.max_retries = 3
    /\ call.errors = <<"rate", "auth", "network">>
    /\ call.text = LongText
    /\ Len(call.warnings) = 1

\* C2: one call makes at most max_retries backend attempts; when all fail it
\* makes exactly max_retries attempts with max_retries - 1 sleeps (none after
\* the last failure); the attempt that succeeds is the last one made, after
\* one sleep per earlier failure.
C2_AttemptBudget ==
    /\ call.attempts <= call.max_retries
    /\ call.attempts = call.google_calls + call.openai_calls
    /\ AllFailed => /\ call.attempts = call.max_retries
                    /\ call.sleeps = call.max_retries - 1
    /\ Succeeded => /\ call.attempts = Len(call.errors) + 1
                    /\ call.sleeps = Len(call.errors)
    /\ call.pc = "loop" => /\ call.attempts = Len(call.errors)
                           /\ call.attempts = call.attempt

C2_Witness ==
    /\ AllFailed
    /\ call.max_retries = 2
    /\ call.attempts = 2
    /\ call.sleeps = 1
    /\ ~UsesOpenAI(call)

\* C3: when the backend raises on the first k attempts and succeeds on attempt
\* k+1 (k < max_retries), the call returns what the backend variant returned
\* on attempt k+1, exactly k sleeps have elapsed and no warning is emitted.
C3_SuccessAfterFailures ==
    Succeeded =>
        /\ Len(call.errors) < call.max_retries
        /\ call.result = Backend(call, call.last).value
        /\ ~Backend(call, call.last).raised
        /\ call.sleeps = Len(call.errors)
        /\ call.warnings = <<>>

C3_Witness ==
    /\ Succeeded
    /\ call.max_retries = 3
    /\ call.errors = <<"rate", "rate">>
    /\ call.attempts = 3
    /\ call.sleeps = 2
    /\ call.text = Hello
    /\ call.result = Hallo

\* the text contains http://, https://, www. or mailto: in some letter case
HasMarker(text) == \E m \in Markers : ContainsLower(text, m)
MarkerInputs == {t \in Texts : HasMarker(t)}

\* C4: for every text containing http://, https://, www. or mailto: (in any
\* letter case, anywhere, also with nothing after the marker) is_url_or_link
\* is true and translate_text_safely returns the input unchanged with no
\* backend call, no sleep and no warning.
C4_LinksUntouched ==
    (call.pc # "idle" /\ call.text \in MarkerInputs) =>
        /\ is_url_or_link(call.text)
        /\ call.pc = "returned"
        /\ call.result = call.text
        /\ call.attempts = 0
        /\ call.google_calls = 0 /\ call.openai_calls = 0
        /\ call.network_calls = 0
        /\ call.sleeps = 0
        /\ call.warnings = <<>>

C4_Witness ==
    /\ call.pc = "returned"
    /\ call.text = upper(WwwMark)
    /\ call.max_retries = 3
    /\ call.result = upper(WwwMark)

\* C8: for every input text, the OpenAI variant returns the first response
\* choice's (trimmed) text when it is non-empty and the original input text
\* when the response is empty.
C8_OpenAIFallback ==
    (Succeeded /\ UsesOpenAI(call)) =>
        IF strip(call.last.content) # Empty
        THEN call.result = strip(call.last.content)
        ELSE call.result = call.text

\* the credential is present and fails the format check of the OpenAI variant
Malformed(key) == key # NoKey /\ ~startswith(strip(key), KeyPrefix)

\* C9: with the OpenAI backend and a malformed credential every attempt fails
\* at the local format check, no network call is made on any attempt, and
\* after max_retries attempts the original text is returned with a warning.
C9_MalformedKey ==
    (call.method = "OpenAI" /\ Malformed(call.key)) =>
        /\ call.network_calls = 0
        /\ call.google_calls = 0
        /\ Len(call.errors) = call.attempts
        /\ \A i \in 1..Len(call.errors) : call.errors[i] = "format"
        /\ (call.pc = "returned" /\ call.skipped = "" /\ call.max_retries >= 1) =>
               /\ call.attempts = call.max_retries
               /\ call.result = call.text
               /\ Len(call.warnings) = 1

C9_Witness ==
    /\ call.pc = "returned"
    /\ call.method = "OpenAI"
    /\ call.key = BadKey
    /\ call.max_retries = 3
    /\ call.errors = <<"format", "format", "format">>
    /\ call.network_calls = 0
    /\ call.result = Hello
    /\ Len(call.warnings) = 1

\* texts with fewer than two characters that are not whitespace
ShortInputs ==
    {t \in Texts : Cardinality({i \in 1..Len(t) : ~IsSpace(t[i])}) < MinLen}

\* C15: for every text with fewer than 2 non-whitespace characters (empty,
\* whitespace only, or one character with whitespace around it)
\* translate_text_safely returns the input unchanged and invokes no backend.
C15_ShortUntouched ==
    call.pc # "idle" /\ call.text \in ShortInputs =>
        /\ call.pc = "returned"
        /\ call.result = call.text
        /\ call.attempts = 0
        /\ call.google_calls = 0 /\ call.openai_calls = 0
        /\ call.network_calls = 0

C15_Witness ==
    /\ call.pc = "returned"
    /\ call.text = PaddedChar
    /\ call.result = PaddedChar
    /\ call.max_retries > 0

\* C19: dispatch follows the selector: with the selector OpenAI every attempt
\* goes to the OpenAI variant and the Google backend is never invoked, for
\* every credential, an empty or missing one included; the Google backend is
\* invoked only when the selector is Google.
C19_DispatchFollowsSelector ==
    /\ call.method = "OpenAI" =>
          call.google_calls = 0 /\ call.openai_calls = call.attempts
    /\ call.method # "OpenAI" => call.openai_calls = 0

\* ----------------------------------------------------- claims on the walker
\* walk order: paragraphs before cells, then table, row and cell index
LexLess(a, b) ==
    \E k \in 1..4 : a[k] < b[k] /\ \A j \in 1..(k-1) : a[j] = b[j]

InWalkOrder(seq) ==
    \A i, j \in 1..Len(seq) : i < j => LexLess(seq[i], seq[j])

NonBlankLocs(d) == {l \in Locs(d) : NonBlank(TextAt(d, l))}

VisitedSet == {visited[i] : i \in 1..Len(visited)}

SameShape(d, e) ==
    /\ Len(d.paragraphs) = Len(e.paragraphs)
    /\ Len(d.tables) = Len(e.tables)
    /\ \A t \in 1..Len(e.tables) :
          /\ Len(d.tables[t]) = Len(e.tables[t])
          /\ \A r \in 1..Len(e.tables[t]) :
                Len(d.tables[t][r]) = Len(e.tables[t][r])

\* fragments whose status update raised before the translator was called
StatusFailures == {f \in failures : f[2] = "status"}

\* the walker visits non-empty fragments only, each once, paragraphs first and
\* then cells in table, row, cell order; the document keeps its fragments
WalkOrder ==
    /\ InWalkOrder(visited)
    /\ VisitedSet \subseteq NonBlankLocs(orig)
    /\ SameShape(doc, orig)
    /\ phase = "done" => VisitedSet = NonBlankLocs(orig)

\* C5 as stated: the walker visits every non-empty fragment exactly once in
\* walk order, the number of translator invocations equals the number of
\* fragments visited, and the fragment count is unchanged.
C5_Original ==
    /\ WalkOrder
    /\ phase = "done" => invocations = Len(visited)

\* C5 amended: as above, but the translator is invoked once for every visited
\* fragment except those whose status update raised before the call.
C5_VisitsOnceInOrder ==
    /\ WalkOrder
    /\ invocations = Len(visited) - Cardinality(StatusFailures)

C5_Witness ==
    /\ phase = "done"
    /\ orig = TablesDoc
    /\ visited = <<CellLoc(1, 1, 1), CellLoc(1, 1, 2), CellLoc(1, 2, 1),
                   CellLoc(2, 1, 1)>>
    /\ StatusFailures = {<<CellLoc(1, 1, 2), "status">>}
    /\ invocations = 3

C7_UntranslatedKept ==
    phase = "done" =>
        \A l \in Locs(orig) :
            l \notin translated => TextAt(doc, l) = TextAt(orig, l)

\* every character of every fragment of d is whitespace
AllBlank(d) ==
    \A l \in Locs(d) :
        \A i \in 1..Len(TextAt(d, l)) : IsSpace(TextAt(d, l)[i])

\* C13: translate_docx on a document with zero eligible fragments (every
\* paragraph and every cell empty or whitespace only) leaves the document
\* unchanged: nothing is written, the translator is never called and no
\* progress update is made.
C13_NothingEligible ==
    phase \notin {"idle", "failed"} /\ AllBlank(orig) =>
        /\ doc = orig
        /\ visited = <<>> /\ invocations = 0 /\ call = NoCall
        /\ total_items = 0 /\ current_item = 0 /\ progress_log = <<>>
        /\ error_log = <<>>

C13_Witness == phase = "done" /\ orig = BlankDoc

\* the texts of the documents, and those of them the link rule matches
DocTexts == UNION {{TextAt(d, l) : l \in Locs(d)} : d \in Docs \cup {SmallDoc}}
DocLinks == {t \in DocTexts : is_url_or_link(t)}

\* every backend output was produced for the fragment's own original text, and
\* that text was eligible
OwnText ==
    \A e \in outputs :
        /\ e[1] \in Locs(orig)
        /\ e[2] = TextAt(orig, e[1])
        /\ e[2] \notin DocLinks
        /\ \E i, j \in 1..Len(e[2]) :
              i # j /\ ~IsSpace(e[2][i]) /\ ~IsSpace(e[2][j])

\* every fragment the link rule matches holds its original text
LinksVerbatim ==
    \A l \in Locs(orig) :
        TextAt(orig, l) \in DocLinks => TextAt(doc, l) = TextAt(orig, l)

C18_ProgressExact ==
    /\ phase \in {"paragraphs", "tables", "done"} => current_item = Len(visited)
    /\ \A i \in 1..Len(progress_log) :
          /\ progress_log[i][1] <= progress_log[i][2]
          /\ i > 1 => progress_log[i-1][1] < progress_log[i][1]
    /\ phase = "done" => current_item = total_items

\* ---------------------------------------------------- claims on the tracker
\* C10: translate_docx is never invoked for a user whose can_translate is
\* false.
C10_QuotaBlocks == phase # "idle" => allowed

\* C11: can_translate(user, daily_limit) is false exactly when the number of
\* increment_count calls made for the user today is at least daily_limit;
\* get_daily_count is 0 for a user without a record today, and every
\* increment_count raises the user's count for today by one.
C11_QuotaCheck ==
    \A u \in Users :
        /\ get_daily_count(u) = completed[<<u, today>>]
        /\ \A daily_limit \in 0..(DailyLimit + 1) :
              can_translate(u, daily_limit) <=>
                  completed[<<u, today>>] < daily_limit

C11_Witness ==
    \E u, v \in Users :
        /\ completed[<<u, today>>] = DailyLimit
        /\ ~can_translate(u, DailyLimit)
        /\ <<v, today>> \notin DOMAIN daily_usage
        /\ can_translate(v, DailyLimit)

\* C12: under any interleaving of increment_count calls of concurrent
\* sessions, the count of a user and day is the number of calls that were
\* completed for them: no update is lost.
C12_NoLostUpdate ==
    \A u \in Users, d \in Dates : Count(u, d) = completed[<<u, d>>]

C12_Witness ==
    \E s, t \in Sessions :
        /\ sess[s].pc = "logged" /\ sess[t].pc = "begun"
        /\ sess[s].user = sess[t].user /\ sess[s].date = sess[t].date
        /\ Count(sess[s].user, sess[s].date) = 2

\* C16: increment_count for user u on date d changes the count of (u, d)
\* only, and get_daily_count on a later date does not include the increments
\* made on d.
C16_PerUserPerDay ==
    [][/\ \A u \in Users :
             increment_count(u) =>
                 \A v \in Users, d \in Dates :
                     Count(v, d)' = IF v = u /\ d = today
                                    THEN Count(v, d) + 1 ELSE Count(v, d)
       /\ NextDay => \A u \in Users :
                        get_daily_count(u)' = completed[<<u, today'>>]]_vars

C16_Witness ==
    /\ today = 2
    /\ Count("u1", 1) = 2 /\ Count("u1", 2) = 1
    /\ Count("u2", 1) = 1 /\ get_daily_count("u2") = 0

\* C17: once the session holds a user id every call of get_user_id returns
\* it; a visit with a user_id parameter and no session id adopts the
\* parameter's id; a fresh id is generated, and echoed to the parameter, only
\* when neither the session nor the parameter carries one.
C17_StableIdentity ==
    [][id_calls' = id_calls + 1 =>
          /\ session_state' = <<returned'>>
          /\ session_state # NoId =>
                /\ returned' = session_state[1]
                /\ query_params' = query_params /\ generated' = generated
          /\ session_state = NoId /\ query_params # NoId =>
                /\ returned' = query_params[1]
                /\ query_params' = query_params /\ generated' = generated
          /\ session_state = NoId /\ query_params = NoId =>
                /\ generated' = generated + 1
                /\ returned' \in Uuids
                /\ query_params' = <<returned'>>]_vars

C17_Witness ==
    /\ generated = 1
    /\ id_calls = 3
    /\ query_params = <<"u2", "u1">>
    /\ session_state = <<"u2">> /\ returned = "u2"

\* C20: if every session calls increment_count only after can_translate
\* returned true for the user, the user's daily count never exceeds the
\* daily limit, under any interleaving of the sessions.
C20_WithinLimit ==
    \A u \in Users, d \in Dates : Count(u, d) <= DailyLimit

\* the user's translation_count added up over all dates
TotalCount(u) ==
    LET RECURSIVE Sum(_)
        Sum(d) == IF d = 0 THEN 0 ELSE Count(u, d) + Sum(d - 1)
    IN Sum(MaxDate)

\* the rows of the translations log that belong to the user
LogRows(u) == {i \in 1..Len(translations) : translations[i].user_id = u}

\* increment_count calls that were begun and are neither running nor completed
Aborted ==
    LET RECURSIVE Done(_)
        Done(S) == IF S = {} THEN 0
                   ELSE LET k == CHOOSE x \in S : TRUE
                        IN completed[k] + Done(S \ {k})
    IN increments - Done(Users \X Dates)
           - Cardinality({s \in Sessions : sess[s].pc \notin {"idle", "checked"}})

\* C21: after any sequence and any interleaving of increment_count calls, for
\* every user the sum of daily_usage.translation_count over all dates is the
\* number of the user's rows in the translations log, whose ids are
\* consecutive: the count update and the log row of one call are committed
\* together or not at all.
C21_TablesConsistent ==
    /\ \A u \in Users : TotalCount(u) = Cardinality(LogRows(u))
    /\ \A i \in 1..Len(translations) :
          /\ translations[i].id = i
          /\ Count(translations[i].user_id, translations[i].created_at) >= 1

C21_Witness ==
    /\ Aborted >= 1
    /\ \E s \in Sessions : sess[s].pc = "logged"
    /\ TotalCount("u1") = 2 /\ Count("u1", 1) = 1
    /\ TotalCount("u2") = 1

====
